---- MODULE Spec2Model ----
(***************************************************************************)
(* Model of pymobiledevice3's ServiceConnection (service_connection.py)    *)
(* and OsTraceService (services/os_trace.py).                              *)
(*                                                                         *)
(* Bytes are naturals 0..255, byte strings are sequences of them.  The     *)
(* socket is a byte stream: `inflight` holds what the peer has sent and    *)
(* the client has not yet received; one socket.recv(k) returns any         *)
(* non-empty prefix of it of at most k bytes, blocks while it is empty and *)
(* the peer is still open, and returns b'' once the peer has closed.       *)
(* The client runs on one thread; its position is a call stack of frames.  *)
(* Every socket.recv is one step; the code of a method between two of the  *)
(* calls it makes is one step.  Python's assert statements are modelled as *)
(* executed (the interpreter is not run with -O).                          *)
(*                                                                         *)
(* Spec is the connection with its peer.  SpecDecode applies the record    *)
(* decoder syslog_t to synthetic buffers, SpecCreate runs                  *)
(* ServiceConnection.create against the device locator, and SpecWriters    *)
(* runs two threads that write to one connection.                          *)
(***************************************************************************)
EXTENDS Integers, Sequences, FiniteSets, TLC

VARIABLES
    inflight,   \* bytes sent by the peer, not yet returned by socket.recv
    pending,    \* messages the peer is still going to send (sequence of byte strings)
    closed,     \* the peer has closed its side of the stream
    fd,         \* the client's socket object: "open" (plain stream), "tls" (wrapped
                \* by ssl_start), or "closed" (closed or detached: every use raises)
    sent,       \* the socket.sendall calls made so far, one byte string per call
    stack,      \* the client's call stack, innermost frame last
    ret,        \* outcome handed by a finished callee to its caller
    prog,       \* the calls the caller of the library still has to make
    results,    \* outcome of each finished top-level call
    out,        \* bytes written so far to create_archive's output sink
    gen,        \* the syslog() generator object: its state between two pulls
    consumed,   \* history: number of bytes socket.recv has returned so far
    marks,      \* history: value of `consumed` when each top-level call finished
    scen,       \* the scenario (peer script and caller program) chosen at start
    writers,    \* the threads that write to the connection: what each has left to send
    mux         \* ServiceConnection.create: its position, and what usbmux has answered

vars == <<inflight, pending, closed, sent, stack, ret, prog, results, out, gen,
          consumed, marks, fd, scen, writers, mux>>

----------------------------------------------------------------------------
(* Bounds of the model *)

MaxSize == 3        \* largest size passed to a top-level recvall
MaxPayload == 2     \* longest payload of a generated frame / status string
MaxChunks == 2      \* most archive chunks the peer sends
MaxRecords == 2     \* most syslog records the peer sends
MaxListed == 2      \* most devices one usbmux.list_devices() answer holds
MaxPolls == 3       \* the polls of create are counted up to this number

----------------------------------------------------------------------------
(* Byte-string helpers *)

Min(a, b) == IF a < b THEN a ELSE b

Take(s, n) == SubSeq(s, 1, Min(n, Len(s)))

Drop(s, n) == SubSeq(s, n + 1, Len(s))

StartsWith(s, p) == Len(s) >= Len(p) /\ SubSeq(s, 1, Len(p)) = p

Reverse(s) == [i \in 1..Len(s) |-> s[Len(s) + 1 - i]]

RECURSIVE Concat(_)
Concat(ss) == IF ss = <<>> THEN <<>> ELSE Head(ss) \o Concat(Tail(ss))

RECURSIVE SeqsUpTo(_, _)
SeqsUpTo(S, n) ==
    IF n = 0 THEN {<<>>}
    ELSE LET shorter == SeqsUpTo(S, n - 1)
         IN  shorter \cup {Append(s, x) : s \in shorter, x \in S}

\* the big-endian value of a byte string (int.from_bytes(b, 'big'))
RECURSIVE BigEndianValue(_)
BigEndianValue(b) ==
    IF b = <<>> THEN 0
    ELSE 256 * BigEndianValue(SubSeq(b, 1, Len(b) - 1)) + b[Len(b)]

\* struct.pack(endianity + 'L', n), endianity '>' big-endian, '<' little-endian
pack(endianity, n) ==
    LET be == << (n \div 16777216) % 256, (n \div 65536) % 256,
                 (n \div 256) % 256, n % 256 >>
    IN  IF endianity = ">" THEN be ELSE Reverse(be)

\* struct.unpack(endianity + 'L', b)[0]
unpack(endianity, b) ==
    IF endianity = ">" THEN BigEndianValue(b) ELSE BigEndianValue(Reverse(b))

\* bytes.hex(): two lowercase hexadecimal digits per byte
HexDigit(d) == IF d < 10 THEN 48 + d ELSE 87 + d

RECURSIVE hex(_)
hex(b) ==
    IF b = <<>> THEN <<>>
    ELSE <<HexDigit(Head(b) \div 16), HexDigit(Head(b) % 16)>> \o hex(Tail(b))

----------------------------------------------------------------------------
(* Python values and outcomes *)

None == [t |-> "None", b |-> <<>>]

Bytes(b) == [t |-> "bytes", b |-> b]

\* a decoded structured value: a dict that may hold the key 'Status'
Dict(has, status) == [t |-> "dict", b |-> status, has |-> has]

\* a request dict {'Request': name, ...}
Request(name) == [t |-> "dict", b |-> <<>>, has |-> FALSE, req |-> name]

Idle == [kind |-> "idle"]

Value(v) == [kind |-> "value", v |-> v]

\* an exception of class `exc` carrying the byte string `b` in its message
Raise(exc, b) == [kind |-> "raise", v |-> [t |-> exc, b |-> b]]

\* `not x` for x a bytes object or None
Falsy(v) == v.t = "None" \/ (v.t = "bytes" /\ v.b = <<>>)

----------------------------------------------------------------------------
(* plistlib (standard library), reduced to dicts with an optional Status   *)
(* string.  Binary form: the magic 'bplist00', then the body.  XML form:   *)
(* '<?xml', '?>', a newline, then the body as text.  The body is empty for *)
(* a dict without Status, 'S' followed by the string for a dict with       *)
(* Status and 'Q' followed by the request name for a request.              *)

bplist_header == <<98, 112, 108, 105, 115, 116, 48, 48>>    \* b'bplist00'

xml_header == <<60, 63, 120, 109, 108>>                      \* b'<?xml'

XmlDeclEnd == <<63, 62>>                                     \* b'?>'

KeyStatus == <<83>>                                          \* 'S'

RequestSuccessful ==
    <<82, 101, 113, 117, 101, 115, 116, 83, 117, 99, 99, 101, 115, 115, 102, 117, 108>>

KeyRequest == <<81>>                                         \* 'Q'

CreateArchive == <<67, 114, 101, 97, 116, 101, 65, 114, 99, 104, 105, 118, 101>>

StartActivity == <<83, 116, 97, 114, 116, 65, 99, 116, 105, 118, 105, 116, 121>>

IsRequest(d) == "req" \in DOMAIN d

PlistBody(d) ==
    IF IsRequest(d) THEN KeyRequest \o d.req
    ELSE IF d.has THEN KeyStatus \o d.b ELSE <<>>

\* plistlib.dumps(d, fmt=fmt)
dumps(d, fmt) ==
    IF fmt = "FMT_BINARY" THEN bplist_header \o PlistBody(d)
    ELSE xml_header \o XmlDeclEnd \o <<10>> \o PlistBody(d)

ParseBody(body) ==
    IF body # <<>> /\ Take(body, 1) = KeyStatus
    THEN Value(Dict(TRUE, Tail(body)))
    ELSE IF body # <<>> /\ Take(body, 1) = KeyRequest
    THEN Value(Request(Tail(body)))
    ELSE IF body = <<>> THEN Value(Dict(FALSE, <<>>))
    ELSE Raise("InvalidFileException", <<>>)

RECURSIVE SkipSpace(_)
SkipSpace(s) ==
    IF s # <<>> /\ Head(s) \in {9, 10, 13, 32} THEN SkipSpace(Tail(s)) ELSE s

\* plistlib.loads(payload): the format is detected from the leading bytes
loads(payload) ==
    IF StartsWith(payload, bplist_header)
    THEN ParseBody(Drop(payload, Len(bplist_header)))
    ELSE IF StartsWith(payload, xml_header)
    THEN LET rest == Drop(payload, Len(xml_header))
         IN  IF StartsWith(rest, XmlDeclEnd)
             THEN ParseBody(SkipSpace(Drop(rest, Len(XmlDeclEnd))))
             ELSE Raise("ExpatError", <<>>)
    ELSE Raise("InvalidFileException", <<>>)

\* d.get('Status') == 'RequestSuccessful'
StatusIsSuccessful(d) == d.t = "dict" /\ d.has /\ d.b = RequestSuccessful

----------------------------------------------------------------------------
(* ServiceConnection: pure parts *)

\* \w of the regular expression, on ASCII
IsWord(c) == c \in (48..57) \cup (65..90) \cup (97..122) \cup {95}

\* the characters the pattern [^\w<>\/ \-_0-9\"\'\\=\.\?\!\+]+ keeps
Allowed(c) == IsWord(c) \/ c \in {60, 62, 47, 32, 45, 95, 34, 39, 92, 61, 46, 63, 33, 43}

\* sub(r'[^...]+', '', payload.decode('utf-8')).encode('utf-8') on ASCII text
Sanitize(payload) == SelectSeq(payload, Allowed)

HexLimit == 100

\* recvall asking for the whole size on every turn
RecvLength_size(size, data) == size

\* the argument of socket.recv in recvall: size - len(data)
RecvLength(size, data) == size - Len(data)

\* the header packed little-endian
send_prefixed_hdr_le(data) == pack("<", Len(data))

\* the header send_prefixed writes: struct.pack('>L', len(data))
send_prefixed_hdr(data) == pack(">", Len(data))

\* the length field taken to count the frame's header as well
payload_size_framed(endianity, size) == unpack(endianity, size) + 4

\* the payload size recv_prefixed reads: struct.unpack(endianity + 'L', size)[0]
payload_size(endianity, size) == unpack(endianity, size)

\* the single byte string send_prefixed hands to sendall
send_prefixed_msg(data) == send_prefixed_hdr(data) \o data

\* the single byte string send_plist hands to sendall
send_plist_msg(d, endianity, fmt) ==
    LET payload == dumps(d, fmt)
    IN  pack(endianity, Len(payload)) \o payload

\* recv_plist after recv_prefixed has returned `payload`
recv_plist_decode(payload) ==
    IF Falsy(payload) THEN Value(None)
    ELSE IF StartsWith(payload.b, bplist_header) THEN loads(payload.b)
    ELSE IF StartsWith(payload.b, xml_header) THEN loads(Sanitize(payload.b))
    ELSE Raise("PyMobileDevice3Exception", hex(Take(payload.b, HexLimit)))

----------------------------------------------------------------------------
(* The socket *)

\* what one socket.recv(length) may return in the current state
recv(length) ==
    IF inflight = <<>>
    THEN IF closed THEN {<<>>} ELSE {}
    ELSE {SubSeq(inflight, 1, k) : k \in 1..Min(length, Len(inflight))}

\* socket.sendall(msg) called by the client's own thread while no other thread
\* writes: whatever the sends it is made of, msg reaches the stream in one
\* piece; a loopback peer echoes every byte it receives
sendall(msg) ==
    /\ sent' = Append(sent, msg)
    /\ inflight' = IF scen.echo THEN inflight \o msg ELSE inflight

PeerSend ==
    /\ pending # <<>>
    /\ inflight' = inflight \o Head(pending)
    /\ pending' = Tail(pending)
    /\ UNCHANGED <<closed, sent, stack, ret, prog, results, out, gen, consumed, marks, fd, scen, writers, mux>>

\* the peer closes once it has sent all it had to send; a loopback peer stays open
PeerClose ==
    /\ pending = <<>>
    /\ ~scen.echo
    /\ ~closed
    /\ closed' = TRUE
    /\ UNCHANGED <<inflight, pending, sent, stack, ret, prog, results, out, gen, consumed,
                   marks, fd, scen, writers, mux>>

----------------------------------------------------------------------------
(* The call stack *)

Frame(fn, pc, size, endianity) ==
    [fn |-> fn, pc |-> pc, size |-> size, data |-> <<>>, endianity |-> endianity]

Top == stack[Len(stack)]

Pop == SubSeq(stack, 1, Len(stack) - 1)

\* the caller's frame moves to `pc` and calls `callee`
CallFrom(pc, callee) == Append(Append(Pop, [Top EXCEPT !.pc = pc]), callee)

Running(fn, pc) == stack # <<>> /\ Top.fn = fn /\ Top.pc = pc

\* the try block taken to enclose the whole body of the loop
Catches_loop(frame, exc) ==
    frame.fn = "create_archive" /\ exc = "ConnectionAbortedError"

\* the frame on top has a handler for the exception being raised: in
\* create_archive the try block encloses the read of the magic byte alone
Catches(frame, exc) ==
    frame.fn = "create_archive" /\ frame.pc = "magic" /\ exc = "ConnectionAbortedError"

----------------------------------------------------------------------------
(* ServiceConnection.recvall *)

\* one turn of the loop: chunk = self.recv(size - len(data)); recv on a socket
\* the client itself has closed raises OSError (bad file descriptor)
recvall_recv ==
    /\ Running("recvall", "loop")
    /\ ret = Idle
    /\ Len(Top.data) < Top.size
    /\ IF fd = "closed"
       THEN /\ stack' = Pop
            /\ ret' = Raise("OSError", <<>>)
            /\ UNCHANGED <<inflight, consumed>>
       ELSE \E chunk \in recv(RecvLength(Top.size, Top.data)) :
              IF Len(chunk) = 0
              THEN /\ stack' = Pop
                   /\ ret' = Raise("ConnectionAbortedError", <<>>)
                   /\ UNCHANGED <<inflight, consumed>>
              ELSE /\ stack' = Append(Pop, [Top EXCEPT !.data = Top.data \o chunk])
                   /\ inflight' = Drop(inflight, Len(chunk))
                   /\ consumed' = consumed + Len(chunk)
                   /\ UNCHANGED ret
    /\ UNCHANGED <<pending, closed, sent, prog, results, out, gen, marks, fd, scen, writers, mux>>

\* the loop condition fails: return data
recvall_return ==
    /\ Running("recvall", "loop")
    /\ ret = Idle
    /\ ~(Len(Top.data) < Top.size)
    /\ stack' = Pop
    /\ ret' = Value(Bytes(Top.data))
    /\ UNCHANGED <<inflight, pending, closed, sent, prog, results, out, gen, consumed,
                   marks, fd, scen, writers, mux>>

----------------------------------------------------------------------------
(* ServiceConnection.recv_prefixed *)

\* size = self.recvall(4)
recv_prefixed_start ==
    /\ Running("recv_prefixed", "start")
    /\ ret = Idle
    /\ stack' = CallFrom("size", Frame("recvall", "loop", 4, ""))
    /\ UNCHANGED <<inflight, pending, closed, sent, ret, prog, results, out, gen, consumed,
                   marks, fd, scen, writers, mux>>

\* the length field has been read: return None, or unpack it and read the payload
recv_prefixed_size ==
    /\ Running("recv_prefixed", "size")
    /\ ret.kind = "value"
    /\ IF Len(ret.v.b) = 0 \/ Len(ret.v.b) # 4
       THEN /\ stack' = Pop
            /\ ret' = Value(None)
       ELSE /\ stack' = CallFrom("body",
                          Frame("recvall", "loop", payload_size(Top.endianity, ret.v.b), ""))
            /\ ret' = Idle
    /\ UNCHANGED <<inflight, pending, closed, sent, prog, results, out, gen, consumed,
                   marks, fd, scen, writers, mux>>

\* return self.recvall(size)
recv_prefixed_body ==
    /\ Running("recv_prefixed", "body")
    /\ ret.kind = "value"
    /\ stack' = Pop
    /\ UNCHANGED <<inflight, pending, closed, sent, ret, prog, results, out, gen, consumed,
                   marks, fd, scen, writers, mux>>

----------------------------------------------------------------------------
(* ServiceConnection.recv_plist *)

\* payload = self.recv_prefixed(endianity=endianity)
recv_plist_start ==
    /\ Running("recv_plist", "start")
    /\ ret = Idle
    /\ stack' = CallFrom("payload", Frame("recv_prefixed", "start", 0, Top.endianity))
    /\ UNCHANGED <<inflight, pending, closed, sent, ret, prog, results, out, gen, consumed,
                   marks, fd, scen, writers, mux>>

\* the payload has been read: dispatch on its leading bytes
recv_plist_dispatch ==
    /\ Running("recv_plist", "payload")
    /\ ret.kind = "value"
    /\ stack' = Pop
    /\ ret' = recv_plist_decode(ret.v)
    /\ UNCHANGED <<inflight, pending, closed, sent, prog, results, out, gen, consumed,
                   marks, fd, scen, writers, mux>>

----------------------------------------------------------------------------
(* ServiceConnection.send_prefixed, send_plist: one sendall each; sendall  *)
(* on a socket that is closed or detached raises OSError                   *)

send_prefixed ==
    /\ stack = <<>> /\ ret = Idle
    /\ prog # <<>> /\ Head(prog).fn = "send_prefixed"
    /\ IF fd = "closed"
       THEN /\ ret' = Raise("OSError", <<>>)
            /\ UNCHANGED <<sent, inflight>>
       ELSE /\ sendall(send_prefixed_msg(Head(prog).data))
            /\ ret' = Value(None)
    /\ prog' = Tail(prog)
    /\ UNCHANGED <<pending, closed, stack, results, out, gen, consumed, marks, fd, scen, writers, mux>>

send_plist ==
    /\ stack = <<>> /\ ret = Idle
    /\ prog # <<>> /\ Head(prog).fn = "send_plist"
    /\ IF fd = "closed"
       THEN /\ ret' = Raise("OSError", <<>>)
            /\ UNCHANGED <<sent, inflight>>
       ELSE /\ sendall(send_plist_msg(Head(prog).d, Head(prog).endianity, Head(prog).fmt))
            /\ ret' = Value(None)
    /\ prog' = Tail(prog)
    /\ UNCHANGED <<pending, closed, stack, results, out, gen, consumed, marks, fd, scen, writers, mux>>

----------------------------------------------------------------------------
(* ServiceConnection.create.  usbmux is the device locator: list_devices() *)
(* answers with the devices attached at that moment, connect(port) opens a *)
(* stream to a port of a device or raises MuxException.                    *)

\* the devices there are: two carry the same serial (one device seen over two
\* links), device 1 listens on port 1 alone
Devices == { [serial |-> "A", id |-> 1, ports |-> {1}],
             [serial |-> "A", id |-> 2, ports |-> {1, 2}],
             [serial |-> "B", id |-> 3, ports |-> {1, 2}] }

\* what one usbmux.list_devices() may answer
list_devices == SeqsUpTo(Devices, MaxListed)

\* device.connect(port): a socket, or MuxException when the port is refused
connect(device, port) == IF port \in device.ports THEN "socket" ELSE "MuxException"

\* the loop left with the first of several matches
SingleMatch_first(matching_devices) == Len(matching_devices) >= 1

\* if len(matching_devices) == 1
SingleMatch(matching_devices) == Len(matching_devices) = 1

\* create(udid, port) is called: target_device = None
create_enter ==
    /\ stack = <<>> /\ ret = Idle
    /\ prog # <<>> /\ Head(prog).fn = "create"
    /\ mux' = [pc |-> "poll", udid |-> Head(prog).udid, port |-> Head(prog).port,
               polls |-> 0, listed |-> <<>>, matching |-> <<>>, connects |-> 0]
    /\ prog' = Tail(prog)
    /\ UNCHANGED <<inflight, pending, closed, sent, stack, ret, results, out, gen,
                   consumed, marks, fd, scen, writers>>

\* one turn of the loop: the devices listed are filtered by serial; exactly one
\* match ends the loop, anything else leads to the next turn
create_poll ==
    /\ mux.pc = "poll"
    /\ \E listing \in list_devices :
          LET matching_devices == SelectSeq(listing, LAMBDA device : device.serial = mux.udid)
          IN  mux' = [mux EXCEPT !.polls = Min(mux.polls + 1, MaxPolls),
                                 !.listed = listing,
                                 !.matching = matching_devices,
                                 !.pc = IF SingleMatch(matching_devices)
                                        THEN "connect" ELSE "poll"]
    /\ UNCHANGED <<inflight, pending, closed, sent, stack, ret, prog, results, out, gen,
                   consumed, marks, fd, scen, writers>>

\* socket = target_device.connect(port); MuxException becomes
\* ConnectionFailedError, otherwise ServiceConnection(socket) is returned
create_connect ==
    /\ mux.pc = "connect"
    /\ LET target_device == mux.matching[1]
       IN  IF connect(target_device, mux.port) = "MuxException"
           THEN /\ ret' = Raise("ConnectionFailedError", <<>>)
                /\ UNCHANGED fd
           ELSE /\ ret' = Value([t |-> "ServiceConnection", b |-> <<>>])
                /\ fd' = "open"
    /\ mux' = [mux EXCEPT !.pc = "done", !.connects = mux.connects + 1]
    /\ UNCHANGED <<inflight, pending, closed, sent, stack, prog, results, out, gen,
                   consumed, marks, scen, writers>>

----------------------------------------------------------------------------
(* Threads that write to one ServiceConnection.  The class holds no lock;  *)
(* socket.sendall is a loop of send calls, each of which hands the stream  *)
(* some non-empty prefix of what is left, and another thread's send may    *)
(* run between two of them.                                                *)

\* thread t calls send_prefixed(data): it builds the message and enters sendall
writer_send_prefixed(t) ==
    /\ writers[t].pc = "start"
    /\ scen.calls[t].fn = "send_prefixed"
    /\ LET msg == send_prefixed_msg(scen.calls[t].data)
       IN  /\ sent' = Append(sent, msg)
           /\ writers' = [writers EXCEPT ![t] = [pc |-> "sendall", buf |-> msg]]
    /\ UNCHANGED <<inflight, pending, closed, stack, ret, prog, results, out, gen,
                   consumed, marks, fd, scen, mux>>

\* thread t calls send_plist(d, endianity, fmt)
writer_send_plist(t) ==
    /\ writers[t].pc = "start"
    /\ scen.calls[t].fn = "send_plist"
    /\ LET c == scen.calls[t]
           msg == send_plist_msg(c.d, c.endianity, c.fmt)
       IN  /\ sent' = Append(sent, msg)
           /\ writers' = [writers EXCEPT ![t] = [pc |-> "sendall", buf |-> msg]]
    /\ UNCHANGED <<inflight, pending, closed, stack, ret, prog, results, out, gen,
                   consumed, marks, fd, scen, mux>>

\* one send of thread t's sendall: k bytes go to the stream; sendall returns
\* when nothing is left
socket_send(t) ==
    /\ writers[t].pc = "sendall"
    /\ \E k \in 1..Len(writers[t].buf) :
          /\ inflight' = inflight \o Take(writers[t].buf, k)
          /\ writers' = [writers EXCEPT ![t] =
                            [pc |-> IF k = Len(writers[t].buf) THEN "done" ELSE "sendall",
                             buf |-> Drop(writers[t].buf, k)]]
    /\ UNCHANGED <<pending, closed, sent, stack, ret, prog, results, out, gen,
                   consumed, marks, fd, scen, mux>>

----------------------------------------------------------------------------
(* ServiceConnection.ssl_start.  context.load_cert_chain raises SSLError   *)
(* for a key that does not belong to the certificate or a file that is no  *)
(* certificate; self.socket is assigned only after context.wrap_socket has *)
(* returned.  wrap_socket detaches the plain socket object before the      *)
(* handshake and closes the descriptor when the handshake fails.           *)

ssl_start ==
    /\ stack = <<>> /\ ret = Idle
    /\ prog # <<>> /\ Head(prog).fn = "ssl_start"
    /\ prog' = Tail(prog)
    /\ IF Head(prog).material # "valid"
       THEN /\ ret' = Raise("SSLError", <<>>)
            /\ UNCHANGED fd
       ELSE IF ~scen.handshake
       THEN /\ ret' = Raise("SSLError", <<>>)
            /\ fd' = "closed"
       ELSE /\ ret' = Value(None)
            /\ fd' = "tls"
    /\ UNCHANGED <<inflight, pending, closed, sent, stack, results, out, gen, consumed,
                   marks, scen, writers, mux>>

----------------------------------------------------------------------------
(* OsTraceService.create_archive (size_limit, age_limit, start_time left   *)
(* at their default None, so the request holds the Request key alone)      *)

\* no check of the status byte
StatusByteAny(b) == TRUE

\* assert 1 == self.c.recvall(1)[0]
StatusByteOk(b) == b[1] = 1

\* no check of the magic byte
ChunkMagicAny(b) == TRUE

\* assert 3 == self.c.recvall(1)[0], 'invalid magic'
ChunkMagicOk(b) == b[1] = 3

\* the byte order of a chunk's length field: recv_prefixed(endianity='<')
ChunkEndianity == "<"

\* writing at the front of the sink
write_front(sink, payload) == payload \o sink

\* out.write(payload)
write(sink, payload) == sink \o payload

\* self.c.send_plist(request); self.c.recvall(1)
create_archive_start ==
    /\ Running("create_archive", "start")
    /\ ret = Idle
    /\ sendall(send_plist_msg(Request(CreateArchive), ">", "FMT_XML"))
    /\ stack' = CallFrom("status", Frame("recvall", "loop", 1, ""))
    /\ UNCHANGED <<pending, closed, ret, prog, results, out, gen, consumed, marks, fd, scen, writers, mux>>

\* the status byte has been read: assert it is 1, then self.c.recv_prefixed()
create_archive_status ==
    /\ Running("create_archive", "status")
    /\ ret.kind = "value"
    /\ IF StatusByteOk(ret.v.b)
       THEN /\ stack' = CallFrom("response", Frame("recv_prefixed", "start", 0, ">"))
            /\ ret' = Idle
       ELSE /\ stack' = Pop
            /\ ret' = Raise("AssertionError", <<>>)
    /\ UNCHANGED <<inflight, pending, closed, sent, prog, results, out, gen, consumed,
                   marks, fd, scen, writers, mux>>

\* the response frame has been read: plistlib.loads it, assert its Status, then
\* enter the loop and read the first magic byte
create_archive_response ==
    /\ Running("create_archive", "response")
    /\ ret.kind = "value"
    /\ LET decoded == IF ret.v.t = "None" THEN Raise("TypeError", <<>>) ELSE loads(ret.v.b)
       IN  IF decoded.kind = "raise"
           THEN /\ stack' = Pop
                /\ ret' = decoded
           ELSE IF StatusIsSuccessful(decoded.v)
           THEN /\ stack' = CallFrom("magic", Frame("recvall", "loop", 1, ""))
                /\ ret' = Idle
           ELSE /\ stack' = Pop
                /\ ret' = Raise("AssertionError", <<>>)
    /\ UNCHANGED <<inflight, pending, closed, sent, prog, results, out, gen, consumed,
                   marks, fd, scen, writers, mux>>

\* a magic byte has been read: assert it is 3, then read the chunk's frame
create_archive_magic ==
    /\ Running("create_archive", "magic")
    /\ ret.kind = "value"
    /\ IF ChunkMagicOk(ret.v.b)
       THEN /\ stack' = CallFrom("chunk", Frame("recv_prefixed", "start", 0, ChunkEndianity))
            /\ ret' = Idle
       ELSE /\ stack' = Pop
            /\ ret' = Raise("AssertionError", <<>>)
    /\ UNCHANGED <<inflight, pending, closed, sent, prog, results, out, gen, consumed,
                   marks, fd, scen, writers, mux>>

\* except ConnectionAbortedError: break -- the read of the magic byte found the
\* stream closed, the loop ends and create_archive returns
create_archive_break ==
    /\ stack # <<>> /\ Top.fn = "create_archive"
    /\ ret.kind = "raise"
    /\ Catches(Top, ret.v.t)
    /\ stack' = Pop
    /\ ret' = Value(None)
    /\ UNCHANGED <<inflight, pending, closed, sent, prog, results, out, gen, consumed,
                   marks, fd, scen, writers, mux>>

\* the chunk's frame has been read: out.write(...), then read the next magic byte
create_archive_chunk ==
    /\ Running("create_archive", "chunk")
    /\ ret.kind = "value"
    /\ IF ret.v.t = "None"
       THEN /\ stack' = Pop
            /\ ret' = Raise("TypeError", <<>>)
            /\ UNCHANGED out
       ELSE /\ out' = write(out, ret.v.b)
            /\ stack' = CallFrom("magic", Frame("recvall", "loop", 1, ""))
            /\ ret' = Idle
    /\ UNCHANGED <<inflight, pending, closed, sent, prog, results, gen, consumed, marks,
                   fd, scen, writers, mux>>

----------------------------------------------------------------------------
(* syslog_t: the layout of one log record (construct declaration)          *)

\* widths of the fixed fields, in order: Bytes(9), pid, Bytes(42), seconds,
\* Bytes(4), microseconds, Bytes(1), level, Bytes(38), image_name_size,
\* message_size, Bytes(6), _subsystem_size, _category_size, Bytes(4)
FieldWidths == <<9, 4, 42, 4, 4, 4, 1, 1, 38, 2, 2, 6, 4, 4, 4>>

RECURSIVE SumTo(_, _)
SumTo(w, n) == IF n = 0 THEN 0 ELSE SumTo(w, n - 1) + w[n]

HeaderSize == SumTo(FieldWidths, Len(FieldWidths))

\* the bytes of the i-th fixed field
Field(line, i) ==
    SubSeq(line, SumTo(FieldWidths, i - 1) + 1, SumTo(FieldWidths, i))

\* Int32ul, Int16ul, Byte: unsigned little-endian
UIntLe(b) == BigEndianValue(Reverse(b))

\* a 32-bit quantity as two 16-bit halves, standing for hi * 65536 + lo with
\* lo in 0..65535: integers from 2^31 on are beyond the checker's arithmetic
Int32(n) == [hi |-> n \div 65536, lo |-> n % 65536]

\* Int32ul of the pid: unsigned, so both halves are unsigned
Int32ul(b) == [hi |-> b[3] + 256 * b[4], lo |-> b[1] + 256 * b[2]]

\* Enum(Byte, Notice=0, Info=0x01, Debug=0x02, Error=0x10, Fault=0x11): the
\* name of a mapped value; an unmapped value is passed through as the integer
LevelEnum(n) ==
    CASE n = 0 -> [name |-> "Notice", value |-> n]
      [] n = 1 -> [name |-> "Info", value |-> n]
      [] n = 2 -> [name |-> "Debug", value |-> n]
      [] n = 16 -> [name |-> "Error", value |-> n]
      [] n = 17 -> [name |-> "Fault", value |-> n]
      [] OTHER -> [name |-> "", value |-> n]

\* TimestampAdapter._decode: seconds + microseconds / 1000000, in microseconds
Timestamp(seconds, microseconds) == seconds * 1000000 + microseconds

\* utils.try_decode: text decoding that replaces what is not valid text; on
\* single bytes, a byte above 127 becomes U+FFFD
try_decode(b) == [i \in 1..Len(b) |-> IF b[i] > 127 THEN 65533 ELSE b[i]]

\* the field kept whole, its last byte included
ButLast_whole(b) == b

\* x[:-1]
ButLast(b) == SubSeq(b, 1, Len(b) - 1)

\* index of the first zero byte of b, 0 when there is none
RECURSIVE FirstZero(_, _)
FirstZero(b, i) ==
    IF i > Len(b) THEN 0 ELSE IF b[i] = 0 THEN i ELSE FirstZero(b, i + 1)

\* syslog_t.parse(line)
parse(line) ==
    IF Len(line) < HeaderSize THEN Raise("StreamError", <<>>)
    ELSE
    LET image_name_size == UIntLe(Field(line, 10))
        message_size == UIntLe(Field(line, 11))
        subsystem_size == UIntLe(Field(line, 13))
        category_size == UIntLe(Field(line, 14))
        tail == Drop(line, HeaderSize)
        z == FirstZero(tail, 1)
        afterName == Drop(tail, z)
        afterImage == Drop(afterName, image_name_size)
        afterMessage == Drop(afterImage, message_size)
    IN  IF z = 0 \/ Len(afterName) < image_name_size \/ Len(afterImage) < message_size
        THEN Raise("StreamError", <<>>)
        ELSE Value([ t |-> "LogRecord",
                     pid |-> Int32ul(Field(line, 2)),
                     timestamp |-> Timestamp(UIntLe(Field(line, 4)), UIntLe(Field(line, 6))),
                     level |-> LevelEnum(UIntLe(Field(line, 8))),
                     filename |-> try_decode(Take(tail, z - 1)),
                     image_name |-> try_decode(ButLast(Take(afterName, image_name_size))),
                     message |-> try_decode(ButLast(Take(afterImage, message_size))),
                     label |->
                        IF Len(afterMessage) < subsystem_size + category_size
                        THEN [present |-> FALSE, subsystem |-> <<>>, category |-> <<>>]
                        ELSE [present |-> TRUE,
                              subsystem |->
                                 try_decode(ButLast(Take(afterMessage, subsystem_size))),
                              category |->
                                 try_decode(ButLast(Take(Drop(afterMessage, subsystem_size),
                                                         category_size)))] ])

\* entry = syslog_t.parse(line), called on a buffer the caller holds
syslog_t_parse ==
    /\ stack = <<>> /\ ret = Idle
    /\ prog # <<>> /\ Head(prog).fn = "parse"
    /\ ret' = parse(Head(prog).line)
    /\ prog' = Tail(prog)
    /\ UNCHANGED <<inflight, pending, closed, sent, stack, results, out, gen, consumed,
                   marks, fd, scen, writers, mux>>

----------------------------------------------------------------------------
(* OsTraceService.syslog: a generator.  Calling syslog() creates the       *)
(* generator object and runs none of the body; each next() runs the body   *)
(* up to the next yield.                                                   *)

\* the record taken to be one byte longer than its length field says
record_length_over(b) == unpack("<", b) + 1

\* length, = struct.unpack('<I', self.c.recvall(4)) in the record loop
record_length(b) == unpack("<", b)

\* the bytes read as one hexadecimal number without reversing them
response_length_be(b) == BigEndianValue(b)

\* int(b[::-1].hex(), 16): the bytes reversed, then read as one hexadecimal number
response_length(b) == BigEndianValue(Reverse(b))

\* the archive's chunk magic expected in place of the record magic
RecordMagicOk_3(b) == b = <<3>>

\* assert b'\x02' == self.c.recvall(1)
RecordMagicOk(b) == b = <<2>>

\* syslog(): the generator object is created
syslog_create ==
    /\ stack = <<>> /\ ret = Idle
    /\ prog # <<>> /\ Head(prog).fn = "syslog"
    /\ gen' = [pc |-> "created"]
    /\ prog' = Tail(prog)
    /\ ret' = Value([t |-> "generator", b |-> <<>>])
    /\ UNCHANGED <<inflight, pending, closed, sent, stack, results, out, consumed, marks,
                   fd, scen, writers, mux>>

\* first next(): self.c.send_plist({'Request': 'StartActivity', ...}), then
\* self.c.recvall(4); sendall on a socket the client has closed raises OSError
syslog_start ==
    /\ stack = <<>> /\ ret = Idle
    /\ prog # <<>> /\ Head(prog).fn = "next"
    /\ gen.pc = "created"
    /\ prog' = Tail(prog)
    /\ IF fd = "closed"
       THEN /\ gen' = [pc |-> "finished"]
            /\ ret' = Raise("OSError", <<>>)
            /\ UNCHANGED <<sent, inflight, stack>>
       ELSE /\ sendall(send_plist_msg(Request(StartActivity), ">", "FMT_XML"))
            /\ gen' = [pc |-> "running"]
            /\ stack' = << Frame("syslog", "length_length", 0, ""),
                           Frame("recvall", "loop", 4, "") >>
            /\ UNCHANGED ret
    /\ UNCHANGED <<pending, closed, results, out, consumed, marks, fd, scen, writers, mux>>

\* length_length has been read: self.c.recvall(length_length)
syslog_length_length ==
    /\ Running("syslog", "length_length")
    /\ ret.kind = "value"
    /\ stack' = CallFrom("length", Frame("recvall", "loop", unpack("<", ret.v.b), ""))
    /\ ret' = Idle
    /\ UNCHANGED <<inflight, pending, closed, sent, prog, results, out, gen, consumed,
                   marks, fd, scen, writers, mux>>

\* the length bytes have been read: int('', 16) raises ValueError, otherwise
\* self.c.recvall(length)
syslog_length ==
    /\ Running("syslog", "length")
    /\ ret.kind = "value"
    /\ IF ret.v.b = <<>>
       THEN /\ stack' = Pop
            /\ ret' = Raise("ValueError", <<>>)
       ELSE /\ stack' = CallFrom("response",
                          Frame("recvall", "loop", response_length(ret.v.b), ""))
            /\ ret' = Idle
    /\ UNCHANGED <<inflight, pending, closed, sent, prog, results, out, gen, consumed,
                   marks, fd, scen, writers, mux>>

\* the response has been read: plistlib.loads it, check its Status, then enter
\* the loop and read the first magic byte
syslog_response ==
    /\ Running("syslog", "response")
    /\ ret.kind = "value"
    /\ LET decoded == loads(ret.v.b)
       IN  IF decoded.kind = "raise"
           THEN /\ stack' = Pop
                /\ ret' = decoded
           ELSE IF ~StatusIsSuccessful(decoded.v)
           THEN /\ stack' = Pop
                /\ ret' = Raise("PyMobileDevice3Exception", <<>>)
           ELSE /\ stack' = CallFrom("magic", Frame("recvall", "loop", 1, ""))
                /\ ret' = Idle
    /\ UNCHANGED <<inflight, pending, closed, sent, prog, results, out, gen, consumed,
                   marks, fd, scen, writers, mux>>

\* a magic byte has been read: assert it is b'\x02', then self.c.recvall(4)
syslog_magic ==
    /\ Running("syslog", "magic")
    /\ ret.kind = "value"
    /\ IF RecordMagicOk(ret.v.b)
       THEN /\ stack' = CallFrom("record_length", Frame("recvall", "loop", 4, ""))
            /\ ret' = Idle
       ELSE /\ stack' = Pop
            /\ ret' = Raise("AssertionError", <<>>)
    /\ UNCHANGED <<inflight, pending, closed, sent, prog, results, out, gen, consumed,
                   marks, fd, scen, writers, mux>>

\* the record's length has been read: line = self.c.recvall(length)
syslog_record_length ==
    /\ Running("syslog", "record_length")
    /\ ret.kind = "value"
    /\ stack' = CallFrom("line", Frame("recvall", "loop", record_length(ret.v.b), ""))
    /\ ret' = Idle
    /\ UNCHANGED <<inflight, pending, closed, sent, prog, results, out, gen, consumed,
                   marks, fd, scen, writers, mux>>

\* the record has been read: entry = syslog_t.parse(line); yield entry
syslog_yield ==
    /\ Running("syslog", "line")
    /\ ret.kind = "value"
    /\ LET entry == parse(ret.v.b)
       IN  /\ ret' = entry
           /\ IF entry.kind = "raise"
              THEN /\ stack' = Pop
                   /\ gen' = [pc |-> "finished"]
              ELSE /\ stack' = Pop
                   /\ gen' = [pc |-> "suspended"]
    /\ UNCHANGED <<inflight, pending, closed, sent, prog, results, out, consumed, marks,
                   fd, scen, writers, mux>>

\* a later next(): the body resumes after the yield, self.c.recvall(1)
syslog_resume ==
    /\ stack = <<>> /\ ret = Idle
    /\ prog # <<>> /\ Head(prog).fn = "next"
    /\ gen.pc = "suspended"
    /\ prog' = Tail(prog)
    /\ gen' = [pc |-> "running"]
    /\ stack' = << Frame("syslog", "magic", 0, ""), Frame("recvall", "loop", 1, "") >>
    /\ UNCHANGED <<inflight, pending, closed, sent, ret, results, out, consumed, marks,
                   fd, scen, writers, mux>>

\* next() on a generator that has ended with an exception raises StopIteration
syslog_exhausted ==
    /\ stack = <<>> /\ ret = Idle
    /\ prog # <<>> /\ Head(prog).fn = "next"
    /\ gen.pc = "finished"
    /\ prog' = Tail(prog)
    /\ ret' = Raise("StopIteration", <<>>)
    /\ UNCHANGED <<inflight, pending, closed, sent, stack, results, out, gen, consumed,
                   marks, fd, scen, writers, mux>>

----------------------------------------------------------------------------
(* ServiceConnection.close *)

close ==
    /\ stack = <<>> /\ ret = Idle
    /\ prog # <<>> /\ Head(prog).fn = "close"
    /\ fd' = "closed"
    /\ prog' = Tail(prog)
    /\ ret' = Value(None)
    /\ UNCHANGED <<inflight, pending, closed, sent, stack, results, out, gen, consumed,
                   marks, scen, writers, mux>>

----------------------------------------------------------------------------
(* The caller of the library: makes the calls of `prog` one after another, *)
(* catching whatever a call raises.                                        *)

Blocking == {"recvall", "recv_prefixed", "recv_plist", "create_archive"}

call ==
    /\ stack = <<>> /\ ret = Idle
    /\ prog # <<>> /\ Head(prog).fn \in Blocking
    /\ stack' = << Frame(Head(prog).fn,
                         IF Head(prog).fn = "recvall" THEN "loop" ELSE "start",
                         Head(prog).size, Head(prog).endianity) >>
    /\ prog' = Tail(prog)
    /\ UNCHANGED <<inflight, pending, closed, sent, ret, results, out, gen, consumed,
                   marks, fd, scen, writers, mux>>

\* an exception leaves a frame that has no handler for it; one that leaves the
\* generator's frame ends the generator
propagate ==
    /\ stack # <<>>
    /\ ret.kind = "raise"
    /\ ~Catches(Top, ret.v.t)
    /\ stack' = Pop
    /\ gen' = IF Top.fn = "syslog" THEN [pc |-> "finished"] ELSE gen
    /\ UNCHANGED <<inflight, pending, closed, sent, ret, prog, results, out, consumed,
                   marks, fd, scen, writers, mux>>

\* the top-level call is over: its outcome reaches the caller
finish ==
    /\ stack = <<>>
    /\ ret # Idle
    /\ results' = Append(results, ret)
    /\ marks' = Append(marks, consumed)
    /\ ret' = Idle
    /\ UNCHANGED <<inflight, pending, closed, sent, stack, prog, out, gen, consumed, fd, scen, writers, mux>>

----------------------------------------------------------------------------
(* Scenarios: what the peer sends and which calls the caller makes *)

CRecvall(n) == [fn |-> "recvall", size |-> n, endianity |-> ""]

CRecvPrefixed(e) == [fn |-> "recv_prefixed", size |-> 0, endianity |-> e]

CRecvPlist(e) == [fn |-> "recv_plist", size |-> 0, endianity |-> e]

CSendPrefixed(data) == [fn |-> "send_prefixed", data |-> data]

CSendPlist(d, e, fmt) == [fn |-> "send_plist", d |-> d, endianity |-> e, fmt |-> fmt]

Iota(n) == [i \in 1..n |-> i]

\* a frame as the peer writes it: u32 length in the given byte order, then the payload
FrameBytes(e, p) == pack(e, Len(p)) \o p

\* short frame payloads
Payloads == SeqsUpTo({1, 2}, MaxPayload)

LastPayloads == {<<>>, <<3>>}

\* structured values: with or without Status; 'a' is kept by the sanitizer, ',' is not
Values == {Dict(FALSE, <<>>)} \cup {Dict(TRUE, s) : s \in SeqsUpTo({97, 44}, MaxPayload)}

Formats == {"FMT_BINARY", "FMT_XML"}

\* payloads that are no plist: empty, one byte, cut-off magics, more than HexLimit
\* bytes, and a magic of either format followed by what the format does not allow
Junk == { <<>>, <<65>>, Take(bplist_header, 7), Take(xml_header, 4),
          [i \in 1..(HexLimit + 1) |-> 66],
          bplist_header \o <<65>>, xml_header \o <<65>> }

PlistPayloads == {dumps(v, f) : v \in Values, f \in Formats} \cup Junk

FollowingValue == Dict(TRUE, <<97>>)

ScenRecvall ==
    { [kind |-> "recvall", echo |-> FALSE, n |-> n, m |-> m, stream |-> Iota(l),
       script |-> <<Iota(l)>>, prog |-> <<CRecvall(n), CRecvall(m)>>]
      : n \in 0..MaxSize, m \in 0..MaxSize, l \in 0..(2 * MaxSize + 1) }

ScenFrames ==
    UNION { LET stream == FrameBytes(e, p1) \o FrameBytes(e, p2)
            IN  { [kind |-> "frames", echo |-> FALSE, e |-> e, p1 |-> p1, p2 |-> p2,
                   stream |-> Take(stream, cut), script |-> <<Take(stream, cut)>>,
                   prog |-> <<CRecvPrefixed(e), CRecvPrefixed(e)>>]
                  : cut \in 0..Len(stream) }
            : e \in {">", "<"}, p1 \in Payloads, p2 \in LastPayloads }

ScenPlist ==
    UNION { LET stream == FrameBytes(">", p1)
                          \o FrameBytes(">", dumps(FollowingValue, "FMT_BINARY"))
            IN  { [kind |-> "plist", echo |-> FALSE, p1 |-> p1,
                   stream |-> Take(stream, cut), script |-> <<Take(stream, cut)>>,
                   prog |-> <<CRecvPlist(">"), CRecvPlist(">")>>]
                  : cut \in IF Len(p1) > HexLimit THEN {Len(stream)} ELSE 0..Len(stream) }
            : p1 \in PlistPayloads }

ScenLoop ==
    { [kind |-> "loop", echo |-> TRUE, p1 |-> p1, p2 |-> p2, script |-> <<>>,
       prog |-> <<CSendPrefixed(p1), CSendPrefixed(p2),
                  CRecvPrefixed(">"), CRecvPrefixed(">")>>]
      : p1 \in Payloads, p2 \in LastPayloads }

ScenLoopPlist ==
    { [kind |-> "loopplist", echo |-> TRUE, d |-> v, fmt |-> f, e |-> e,
       script |-> <<>>, prog |-> <<CSendPlist(v, e, f), CRecvPlist(e)>>]
      : v \in Values, f \in Formats, e \in {">", "<"} }

\* ssl_start with good or bad certificate material, against a peer that completes
\* the handshake or not; then one frame is sent and one is awaited
ScenSsl ==
    { [kind |-> "ssl", echo |-> TRUE, material |-> m, handshake |-> h, p1 |-> p,
       script |-> <<>>,
       prog |-> <<[fn |-> "ssl_start", material |-> m], CSendPrefixed(p),
                  CRecvPrefixed(">")>>]
      : m \in {"valid", "mismatched", "invalid"}, h \in BOOLEAN, p \in Payloads }

\* two threads, one call each on the same connection: two send_prefixed, or a
\* send_plist and a send_prefixed
ScenWriters ==
    { [kind |-> "writers", echo |-> TRUE, script |-> <<>>, prog |-> <<>>,
       calls |-> <<c1, c2>>]
      : c1 \in {CSendPrefixed(p) : p \in Payloads}
               \cup {CSendPlist(Dict(FALSE, <<>>), e, "FMT_BINARY") : e \in {">", "<"}},
        c2 \in {CSendPrefixed(p) : p \in LastPayloads} }

\* create(udid, port) for a serial two devices carry, one a single device
\* carries and one no device carries
ScenCreate ==
    { [kind |-> "create", echo |-> FALSE, udid |-> u, port |-> p, script |-> <<>>,
       prog |-> <<[fn |-> "create", udid |-> u, port |-> p]>>]
      : u \in {"A", "B", "C"}, p \in {1, 2} }

\* an archive chunk as the peer writes it: magic byte, little-endian frame
ChunkBytes(magic, p) == <<magic>> \o FrameBytes("<", p)

\* the payload of the i-th chunk, of the given length: bytes that name the chunk
ChunkPayload(i, len) == [j \in 1..len |-> 10 * i + j]

\* the payloads of k chunks: lengths start, start + 1, ... taken modulo MaxPayload + 1,
\* so that every length, 0 included, occurs at every position
ChunkSeqs(k) ==
    { [i \in 1..k |-> ChunkPayload(i, (start + i - 1) % (MaxPayload + 1))]
      : start \in 0..MaxPayload }

RECURSIVE ChunkStream(_)
ChunkStream(cs) ==
    IF cs = <<>> THEN <<>> ELSE ChunkBytes(3, Head(cs)) \o ChunkStream(Tail(cs))

GoodResponse(f) == dumps(Dict(TRUE, RequestSuccessful), f)

\* responses that do not acknowledge: another Status, no Status, no plist, empty
BadResponses == { dumps(Dict(TRUE, <<97>>), "FMT_BINARY"), dumps(Dict(FALSE, <<>>), "FMT_XML"),
                  <<65>>, <<>> }

Acknowledgment(status, resp) == <<status>> \o FrameBytes(">", resp)

\* acknowledged transfers: k chunks, then either nothing or a byte that is not the
\* chunk magic followed by one more well-formed chunk; cut anywhere after the
\* acknowledgment
ScenArchive ==
    UNION { LET ack == Acknowledgment(1, GoodResponse("FMT_BINARY"))
                tail == IF bad = 0 THEN <<>> ELSE <<bad>> \o FrameBytes("<", <<9>>)
                stream == ack \o ChunkStream(cs) \o tail
            IN  { [kind |-> "archive", echo |-> FALSE, status |-> 1,
                   resp |-> GoodResponse("FMT_BINARY"), chunks |-> cs, bad |-> bad,
                   full |-> stream, stream |-> Take(stream, cut),
                   script |-> <<Take(stream, cut)>>,
                   prog |-> <<[fn |-> "create_archive", size |-> 0, endianity |-> ""]>>]
                  : cut \in Len(ack)..Len(stream) }
            : cs \in UNION {ChunkSeqs(k) : k \in 0..MaxChunks}, bad \in {0, 2} }

\* every acknowledgment, good or bad, followed by one well-formed chunk; cut anywhere
ScenArchiveAck ==
    UNION { LET stream == Acknowledgment(st, resp) \o ChunkBytes(3, <<9>>)
            IN  { [kind |-> "ack", echo |-> FALSE, status |-> st, resp |-> resp,
                   chunks |-> << <<9>> >>, bad |-> 0,
                   full |-> stream, stream |-> Take(stream, cut),
                   script |-> <<Take(stream, cut)>>,
                   prog |-> <<[fn |-> "create_archive", size |-> 0, endianity |-> ""]>>]
                  : cut \in 0..Len(stream) }
            : st \in {0, 1, 3},
              resp \in BadResponses \cup {GoodResponse(f) : f \in Formats} }

Zeros(n) == [i \in 1..n |-> 0]

\* a log record as the peer lays it out; every sized field ends with a zero byte
RecordBytes(r) ==
    Zeros(9) \o pack("<", r.pid) \o Zeros(42) \o pack("<", r.seconds) \o Zeros(4)
    \o pack("<", r.microseconds) \o Zeros(1) \o <<r.level>> \o Zeros(38)
    \o Take(pack("<", Len(r.image_name) + 1), 2) \o Take(pack("<", Len(r.message) + 1), 2)
    \o Zeros(6) \o pack("<", Len(r.subsystem) + 1) \o pack("<", Len(r.category) + 1)
    \o Zeros(4) \o r.filename \o <<0>> \o r.image_name \o <<0>> \o r.message \o <<0>>
    \o r.subsystem \o <<0>> \o r.category \o <<0>>

\* the i-th record the peer sends
Record(i) ==
    [ pid |-> 100 + i, seconds |-> 1000 + i, microseconds |-> 10 * i,
      level |-> IF i % 2 = 1 THEN 16 ELSE 2,
      filename |-> <<102>>, image_name |-> <<105>>, message |-> <<109, 48 + i>>,
      subsystem |-> <<>>, category |-> <<>> ]

\* a record on the wire: magic byte, little-endian length, the record
RecordMessage(magic, r) == <<magic>> \o FrameBytes("<", RecordBytes(r))

\* the response to StartActivity: 4-byte little-endian length of the length, the
\* length in that many bytes in the byte order `enc`, the response
Handshake(ll, enc, resp) ==
    LET le == [i \in 1..ll |-> (Len(resp) \div (256 ^ (i - 1))) % 256]
    IN  pack("<", ll) \o (IF enc = "little" THEN le ELSE Reverse(le)) \o resp

Pulls(n) == [i \in 1..n |-> [fn |-> "next"]]

\* a successful response and n records, one message each; then nothing, or a
\* byte that is not the record magic followed by one more record.  The caller
\* pulls n + 2 times, and may close the connection before the last two pulls.
ScenSyslog ==
    UNION { { [kind |-> "syslog", echo |-> FALSE, n |-> n, bad |-> bad, closes |-> c,
               script |-> <<Handshake(1, "little", GoodResponse("FMT_BINARY"))>>
                          \o [i \in 1..n |-> RecordMessage(2, Record(i))]
                          \o (IF bad = 0 THEN <<>>
                              ELSE << RecordMessage(bad, Record(n + 1)) >>),
               prog |-> <<[fn |-> "syslog"]>> \o Pulls(n)
                        \o (IF c THEN <<[fn |-> "close"]>> ELSE <<>>) \o Pulls(2)]
              : c \in IF bad = 0 THEN BOOLEAN ELSE {FALSE} }
            : n \in 0..MaxRecords, bad \in {0, 3} }

\* every shape of the response, followed by one record
ScenSyslogResponse ==
    { [kind |-> "syslogresp", echo |-> FALSE, ll |-> ll, enc |-> enc, resp |-> resp,
       script |-> <<Handshake(ll, enc, resp), RecordMessage(2, Record(1))>>,
       prog |-> <<[fn |-> "syslog"]>> \o Pulls(2)]
      : ll \in 0..2, enc \in {"little", "big"},
        resp \in {GoodResponse("FMT_BINARY"), dumps(Dict(TRUE, <<97>>), "FMT_BINARY"), <<65>>} }

\* a buffer laid out as syslog_t declares it; image, message, subsystem and
\* category are the sized fields as declared, last byte included
SyntheticLine(f) ==
    Zeros(9) \o pack("<", f.pid) \o Zeros(42) \o pack("<", f.seconds) \o Zeros(4)
    \o pack("<", f.microseconds) \o Zeros(1) \o <<f.level>> \o Zeros(38)
    \o Take(pack("<", Len(f.image)), 2) \o Take(pack("<", Len(f.message)), 2)
    \o Zeros(6) \o pack("<", Len(f.subsystem)) \o pack("<", Len(f.category))
    \o Zeros(4) \o f.filename \o <<0>> \o f.image \o f.message
    \o f.subsystem \o f.category

\* pids as the writer means them; a negative one is written in two's complement
Pids == {1, 12345, 2147483647, -1, -2147483647}

\* severity bytes: the five of the enumeration and some others
Levels == {0, 1, 2, 16, 17, 3, 15, 18, 255}

\* sized fields of size 0, 1 and more, ending in a zero byte or not
SizedFields == {<<>>, <<0>>, <<120>>, <<105, 0>>, <<109, 49, 0>>}

DecodeInputs ==
    { [pid |-> p, seconds |-> 1001, microseconds |-> 999999, level |-> l,
       filename |-> <<102>>, image |-> <<105, 0>>, message |-> <<109, 0>>,
       subsystem |-> <<115, 0>>, category |-> <<99, 0>>]
      : p \in Pids, l \in Levels }
    \cup
    { [pid |-> 77, seconds |-> sec, microseconds |-> us, level |-> 17,
       filename |-> fn, image |-> im, message |-> ms, subsystem |-> su, category |-> ca]
      : sec \in {0, 1001}, us \in {0, 999999}, fn \in {<<>>, <<102, 47>>},
        im \in SizedFields, ms \in SizedFields,
        su \in {<<>>, <<0>>, <<115, 0>>}, ca \in {<<>>, <<99>>, <<99, 0>>} }

\* syslog_t.parse on one synthetic buffer
ScenDecode ==
    { [kind |-> "decode", echo |-> FALSE, f |-> f, script |-> <<>>,
       prog |-> <<[fn |-> "parse", line |-> SyntheticLine(f)]>>]
      : f \in DecodeInputs }

Start(s) ==
    /\ scen = s
    /\ prog = s.prog
    /\ pending = s.script
    /\ inflight = <<>>
    /\ closed = FALSE
    /\ fd = IF s.kind = "create" THEN "none" ELSE "open"
    /\ sent = <<>>
    /\ stack = <<>>
    /\ ret = Idle
    /\ results = <<>>
    /\ out = <<>>
    /\ gen = [pc |-> "none"]
    /\ consumed = 0
    /\ marks = <<>>
    /\ writers = IF "calls" \in DOMAIN s
                 THEN [t \in 1..Len(s.calls) |-> [pc |-> "start", buf |-> <<>>]]
                 ELSE <<>>
    /\ mux = [pc |-> "none"]

Init ==
    \/ \E s \in ScenRecvall : Start(s)
    \/ \E s \in ScenFrames : Start(s)
    \/ \E s \in ScenPlist : Start(s)
    \/ \E s \in ScenLoop : Start(s)
    \/ \E s \in ScenLoopPlist : Start(s)
    \/ \E s \in ScenSsl : Start(s)
    \/ \E s \in ScenArchive : Start(s)
    \/ \E s \in ScenArchiveAck : Start(s)
    \/ \E s \in ScenSyslog : Start(s)
    \/ \E s \in ScenSyslogResponse : Start(s)

\* the steps of the client
ClientNext ==
    \/ call
    \/ recvall_recv
    \/ recvall_return
    \/ recv_prefixed_start
    \/ recv_prefixed_size
    \/ recv_prefixed_body
    \/ recv_plist_start
    \/ recv_plist_dispatch
    \/ send_prefixed
    \/ send_plist
    \/ ssl_start
    \/ create_archive_start
    \/ create_archive_status
    \/ create_archive_response
    \/ create_archive_magic
    \/ create_archive_break
    \/ create_archive_chunk
    \/ syslog_create
    \/ syslog_start
    \/ syslog_length_length
    \/ syslog_length
    \/ syslog_response
    \/ syslog_magic
    \/ syslog_record_length
    \/ syslog_yield
    \/ syslog_resume
    \/ syslog_exhausted
    \/ close
    \/ propagate
    \/ finish

Next ==
    \/ PeerSend
    \/ PeerClose
    \/ ClientNext

Spec == Init /\ [][Next]_vars

\* ServiceConnection.create against the device locator
InitCreate == \E s \in ScenCreate : Start(s)

NextCreate ==
    \/ create_enter
    \/ create_poll
    \/ create_connect
    \/ finish

SpecCreate == InitCreate /\ [][NextCreate]_vars

\* two writer threads on one connection
InitWriters == \E s \in ScenWriters : Start(s)

NextWriters ==
    \E t \in 1..2 :
        \/ writer_send_prefixed(t)
        \/ writer_send_plist(t)
        \/ socket_send(t)

SpecWriters == InitWriters /\ [][NextWriters]_vars

\* the record decoder alone, applied to synthetic buffers
InitDecode == \E s \in ScenDecode : Start(s)

NextDecode ==
    \/ syslog_t_parse
    \/ finish

SpecDecode == InitDecode /\ [][NextDecode]_vars

----------------------------------------------------------------------------
(* Claims about ServiceConnection *)

IsPrefix(a, b) == Len(a) <= Len(b) /\ SubSeq(b, 1, Len(a)) = a

\* what a finished top-level call i consumed from the stream
ConsumedBy(i) == marks[i] - (IF i = 1 THEN 0 ELSE marks[i - 1])

\* the bytes the top-level calls started so far have asked for (recvall scenario)
Requested ==
    IF Len(prog) = 2 THEN 0 ELSE IF Len(prog) = 1 THEN scen.n ELSE scen.n + scen.m

\* C1: recvall(n) returns exactly the next n bytes of the stream, in order,
\* whenever at least n bytes arrive before the peer closes, and it never takes
\* more than n bytes from the stream.
C1_RecvallExact ==
    scen.kind = "recvall" =>
        /\ consumed <= Requested
        /\ (Len(results) >= 1 /\ Len(scen.stream) >= scen.n) =>
               /\ results[1] = Value(Bytes(SubSeq(scen.stream, 1, scen.n)))
               /\ marks[1] = scen.n
        /\ (Len(results) >= 2 /\ Len(scen.stream) >= scen.n + scen.m) =>
               /\ results[2] = Value(Bytes(SubSeq(scen.stream, scen.n + 1, scen.n + scen.m)))
               /\ marks[2] = scen.n + scen.m

C1_Witness ==
    /\ scen.kind = "recvall" /\ scen.n = 3 /\ scen.m = 2 /\ Len(scen.stream) > 5
    /\ Len(results) = 2
    /\ results[1] = Value(Bytes(<<1, 2, 3>>))
    /\ results[2] = Value(Bytes(<<4, 5>>))
    /\ consumed = 5 /\ Len(inflight) > 0

\* C2: recvall fails with ConnectionClosed (Python's ConnectionAbortedError)
\* when the stream closes before any byte was read, and with a different
\* error, TruncatedStream, when it closes after a partial read.
C2_DistinctFailures ==
    (scen.kind = "recvall" /\ Len(results) >= 1 /\ results[1].kind = "raise") =>
        /\ marks[1] = 0 => results[1].v.t = "ConnectionAbortedError"
        /\ marks[1] > 0 => results[1].v.t = "TruncatedStream"

\* C3: when the peer closes at a frame boundary, recv_prefixed and recv_plist
\* return None instead of failing.
C3_CleanCloseReturnsNone ==
    (scen.kind \in {"frames", "plist"} /\ Len(scen.stream) = 0 /\ Len(results) >= 1) =>
        results[1] = Value(None)

\* C4: the bytes send_prefixed(payload) writes are read back by recv_prefixed
\* as exactly payload, whatever the chunking; the read takes the 4-byte header
\* and the payload and nothing more, so the following frame is read intact.
C4_FramingRoundTrip ==
    scen.kind = "loop" =>
        /\ Len(results) <= 2 => consumed <= 4 + Len(scen.p1)
        /\ Len(results) >= 3 =>
               /\ results[3] = Value(Bytes(scen.p1))
               /\ marks[3] = 4 + Len(scen.p1)
        /\ Len(results) >= 4 =>
               /\ results[4] = Value(Bytes(scen.p2))
               /\ ConsumedBy(4) = 4 + Len(scen.p2)

C4_Witness ==
    /\ scen.kind = "loop" /\ Len(scen.p1) >= 2 /\ Len(scen.p2) = 1
    /\ Len(results) = 4
    /\ results[3] = Value(Bytes(scen.p1))
    /\ results[4] = Value(Bytes(scen.p2))
    /\ inflight = <<>>

\* C5: recv_plist decodes a payload beginning with 'bplist00' as binary, one
\* beginning with '<?xml' as XML after sanitization, and raises the invalid-data
\* error carrying the hex of the first 100 bytes for every other payload.
C5_PrefixDispatch ==
    (scen.kind = "plist" /\ Len(scen.stream) >= 4 + Len(scen.p1) /\ Len(results) >= 1) =>
        results[1] =
            IF StartsWith(scen.p1, bplist_header) THEN loads(scen.p1)
            ELSE IF StartsWith(scen.p1, xml_header) THEN loads(Sanitize(scen.p1))
            ELSE Raise("PyMobileDevice3Exception", hex(Take(scen.p1, HexLimit)))

\* C6: a value sent by send_plist in either format comes back from recv_plist
\* equal to the value sent.
C6_ValueRoundTrip ==
    (scen.kind = "loopplist" /\ Len(results) >= 2) => results[2] = Value(scen.d)

\* C13: when ssl_start fails (mismatched or invalid certificate material, or a
\* failed handshake) the connection is unusable afterwards: no later send or
\* receive goes over the unencrypted stream.
C13_NoPlaintextFallback ==
    (scen.kind = "ssl" /\ Len(results) >= 1 /\ results[1].kind = "raise") =>
        /\ sent = <<>>
        /\ consumed = 0

\* the errors of decoding a payload: recv_plist's own and plistlib's
DecodeErrors == {"PyMobileDevice3Exception", "InvalidFileException", "ExpatError"}

\* the whole stream of a plist scenario: the frame of p1, then the following frame
PlistStreamLen == 4 + Len(scen.p1) + 4 + Len(dumps(FollowingValue, "FMT_BINARY"))

\* C17: a decode error does not desynchronize the connection: when recv_plist
\* fails on a frame, that frame has been consumed in full (4-byte length plus
\* the declared payload and no more), the connection is still open, and the
\* next recv_plist returns the value of the next frame the peer sent.
C17_DecodeErrorKeepsSync ==
    (/\ scen.kind = "plist" /\ Len(results) >= 1
     /\ results[1].kind = "raise" /\ results[1].v.t \in DecodeErrors) =>
        /\ marks[1] = 4 + Len(scen.p1)
        /\ fd = "open"
        /\ Len(results) = 1 => consumed <= PlistStreamLen
        /\ (Len(results) >= 2 /\ Len(scen.stream) = PlistStreamLen) =>
               /\ results[2] = Value(FollowingValue)
               /\ marks[2] = PlistStreamLen

C17_Witness ==
    /\ scen.kind = "plist" /\ scen.p1 = <<65>>
    /\ results = << Raise("PyMobileDevice3Exception", <<52, 49>>), Value(FollowingValue) >>
    /\ marks = <<5, PlistStreamLen>>
    /\ fd = "open" /\ ~closed

\* the frame a call is to put on the stream: 4-byte length, then the payload;
\* the length of send_prefixed is big-endian whatever the call
FrameOf(c) ==
    IF c.fn = "send_prefixed" THEN FrameBytes(">", c.data)
    ELSE FrameBytes(c.endianity, dumps(c.d, c.fmt))

\* C14: send_prefixed and send_plist each hand header and payload to the stream
\* in one single write call, send_prefixed with a big-endian length, and with
\* two concurrent writers the bytes of one frame are never interleaved with
\* the bytes of the other: the stream always begins as one whole frame
\* followed by the other would.
C14_AtomicFrames ==
    scen.kind = "writers" =>
        LET f1 == FrameOf(scen.calls[1])
            f2 == FrameOf(scen.calls[2])
        IN  /\ Len(sent) <= 2
            /\ \A i \in 1..Len(sent) : sent[i] \in {f1, f2}
            /\ IsPrefix(inflight, f1 \o f2) \/ IsPrefix(inflight, f2 \o f1)

\* how many of the devices last listed carry the serial asked for
MatchCount == Cardinality({i \in DOMAIN mux.listed : mux.listed[i].serial = scen.udid})

\* C19: create(udid, port) leaves its polling loop only in a poll where exactly
\* one listed device has the serial; while none or several match it neither
\* returns nor fails and can always poll again; after the single match it makes
\* exactly one connect attempt, returns a ServiceConnection when that succeeds
\* and fails with ConnectionFailedError, without another poll or connect, when
\* it is refused.
C19_CreatePolls ==
    (scen.kind = "create" /\ mux.pc # "none") =>
        /\ mux.pc \in {"connect", "done"} <=> MatchCount = 1
        /\ mux.pc = "poll" =>
               /\ mux.connects = 0 /\ ret = Idle /\ results = <<>> /\ fd = "none"
               /\ ENABLED create_poll
        /\ mux.pc = "connect" => (mux.connects = 0 /\ ret = Idle /\ results = <<>>)
        /\ mux.pc = "done" =>
               /\ mux.connects = 1
               /\ ~ENABLED create_poll /\ ~ENABLED create_connect
               /\ LET device == CHOOSE d \in Devices :
                                    \E i \in DOMAIN mux.listed : mux.listed[i] = d
                                                                /\ d.serial = scen.udid
                       outcome == IF ret = Idle THEN results[1] ELSE ret
                   IN  IF scen.port \in device.ports
                       THEN outcome = Value([t |-> "ServiceConnection", b |-> <<>>])
                            /\ fd = "open"
                       ELSE outcome = Raise("ConnectionFailedError", <<>>) /\ fd = "none"

C19_Witness ==
    /\ scen.kind = "create" /\ scen.udid = "A" /\ scen.port = 2
    /\ mux.pc = "done" /\ mux.polls = MaxPolls /\ mux.connects = 1
    /\ Len(mux.listed) = 2 /\ mux.listed[2].id = 1
    /\ results = << Raise("ConnectionFailedError", <<>>) >>

----------------------------------------------------------------------------
(* Claims about OsTraceService.create_archive *)

Acknowledges(resp) == resp \in {GoodResponse(f) : f \in Formats}

AckLen == 1 + 4 + Len(scen.resp)

\* create_archive is in its chunk loop
Streaming ==
    \E i \in 1..Len(stack) :
        stack[i].fn = "create_archive" /\ stack[i].pc \in {"magic", "chunk"}

\* C7: after status byte 1 and a RequestSuccessful response, k chunks (magic 3,
\* little-endian length, payload) and a clean close, create_archive returns
\* normally and the sink holds the chunk payloads concatenated in order.
C7_ArchiveHappyPath ==
    (/\ scen.kind \in {"archive", "ack"}
     /\ scen.status = 1 /\ Acknowledges(scen.resp) /\ scen.bad = 0
     /\ scen.stream = scen.full) =>
        /\ IsPrefix(out, Concat(scen.chunks))
        /\ Len(results) >= 1 =>
               /\ results[1] = Value(None)
               /\ out = Concat(scen.chunks)
               /\ consumed = Len(scen.full)

C7_Witness ==
    /\ scen.kind = "archive" /\ scen.bad = 0 /\ scen.stream = scen.full
    /\ Len(scen.chunks) = 2 /\ Len(scen.chunks[1]) = 1 /\ Len(scen.chunks[2]) = 2
    /\ results = <<Value(None)>>
    /\ out = <<11, 21, 22>>
    /\ closed

\* the bytes of the stream up to and including the byte sent in place of a magic
BadMagicPos == AckLen + Len(ChunkStream(scen.chunks)) + 1

\* C8: a magic byte other than 3 makes create_archive fail; from that byte on
\* nothing is read from the connection and nothing is written to the sink.
C8_ArchiveAbort ==
    (scen.kind = "archive" /\ scen.bad # 0 /\ Len(scen.stream) >= BadMagicPos) =>
        /\ consumed <= BadMagicPos
        /\ IsPrefix(out, Concat(scen.chunks))
        /\ Len(results) >= 1 =>
               /\ results[1] = Raise("AssertionError", <<>>)
               /\ consumed = BadMagicPos
               /\ out = Concat(scen.chunks)

C8_Witness ==
    /\ scen.kind = "archive" /\ scen.bad # 0 /\ scen.stream = scen.full
    /\ Len(scen.chunks) = 2 /\ Len(scen.chunks[1]) = 1
    /\ results = <<Raise("AssertionError", <<>>)>>
    /\ out = Concat(scen.chunks)
    /\ Len(inflight) = 5

\* C9: the chunk loop is entered only after status byte 1 and a response whose
\* Status is RequestSuccessful; after any other status byte or response the
\* call fails with a protocol error, no magic byte is read and nothing is written.
C9_ArchiveAcknowledgment ==
    scen.kind = "ack" =>
        /\ Streaming => (scen.status = 1 /\ Acknowledges(scen.resp))
        /\ (scen.status # 1 \/ ~Acknowledges(scen.resp)) =>
               /\ out = <<>>
               /\ consumed <= (IF scen.status # 1 THEN 1 ELSE AckLen)
               /\ (Len(results) >= 1 /\ Len(scen.stream) >= AckLen) =>
                      /\ results[1].kind = "raise"
                      /\ results[1].v.t \in {"AssertionError", "InvalidFileException"}

C9_Witness ==
    /\ scen.kind = "ack" /\ scen.status = 1
    /\ scen.resp = dumps(Dict(TRUE, <<97>>), "FMT_BINARY")
    /\ scen.stream = scen.full
    /\ results = <<Raise("AssertionError", <<>>)>>
    /\ consumed = AckLen
    /\ Len(inflight) = 6
    /\ out = <<>>

\* the stream positions at which a chunk ends (or the first one begins)
Boundaries ==
    { AckLen + Len(ChunkStream(SubSeq(scen.chunks, 1, k))) : k \in 0..Len(scen.chunks) }

\* the chunks the stream holds in full
WholeChunks ==
    SubSeq(scen.chunks, 1,
           Cardinality({b \in Boundaries : b <= Len(scen.stream)}) - 1)

\* C18: create_archive returns normally only when the peer closes at a chunk
\* boundary, while the next magic byte is awaited; a close after a magic byte 3
\* and before the whole length field and declared payload have arrived is
\* fatal: the close error reaches the caller and the truncated chunk is not
\* written to the sink.
C18_CloseAtBoundaryOnly ==
    (scen.kind = "archive" /\ Len(results) >= 1) =>
        /\ results[1] = Value(None) => Len(scen.stream) \in Boundaries
        /\ scen.bad = 0 =>
               /\ Len(scen.stream) \in Boundaries => results[1] = Value(None)
               /\ Len(scen.stream) \notin Boundaries =>
                      results[1] = Raise("ConnectionAbortedError", <<>>)
               /\ out = Concat(WholeChunks)
               /\ consumed = Len(scen.stream)

C18_Witness ==
    /\ scen.kind = "archive" /\ scen.bad = 0
    /\ Len(scen.chunks) = 2 /\ Len(scen.chunks[1]) = 1 /\ Len(scen.chunks[2]) = 2
    /\ Len(scen.stream) = Len(scen.full) - 1
    /\ results = << Raise("ConnectionAbortedError", <<>>) >>
    /\ out = <<11>>
    /\ consumed = Len(scen.stream)

----------------------------------------------------------------------------
(* Claims about OsTraceService.syslog *)

\* the LogRecord that record r, as the peer wrote it, stands for
Expected(r) ==
    [ t |-> "LogRecord", pid |-> Int32(r.pid),
      timestamp |-> r.seconds * 1000000 + r.microseconds,
      level |-> [name |-> IF r.level = 16 THEN "Error" ELSE "Debug", value |-> r.level],
      filename |-> r.filename, image_name |-> r.image_name, message |-> r.message,
      label |-> [present |-> TRUE, subsystem |-> r.subsystem, category |-> r.category] ]

\* index in `results` of the pull that follows the n-th record
LastPull == scen.n + 2 + (IF scen.closes THEN 1 ELSE 0)

\* that pull has been made and has not returned
LastPullRunning == Len(results) = LastPull - 1 /\ stack # <<>>

\* the client is about to call socket.recv
AtRecv == Running("recvall", "loop") /\ ret = Idle /\ Len(Top.data) < Top.size

PullsStarted ==
    (scen.n + 2) - Cardinality({i \in DOMAIN prog : prog[i].fn = "next"})

\* the bytes of the handshake and of the first k messages that follow it
Allowance(k) == Len(Concat(SubSeq(scen.script, 1, Min(1 + k, Len(scen.script)))))

\* C20: syslog() is pull-driven and reads nothing ahead: creating the sequence
\* sends and reads nothing, the StartActivity request goes out once, on the
\* first pull; a pull that yields a record has consumed that record's magic
\* byte, length and payload and no byte of a later record; a magic byte other
\* than 2 ends the sequence with a fatal error and nothing is read after it.
C20_PullDriven ==
    scen.kind = "syslog" =>
        /\ gen.pc \in {"none", "created"} => (sent = <<>> /\ consumed = 0)
        /\ Len(sent) <= 1
        /\ sent # <<>> =>
               sent[1] = FrameBytes(">", dumps(Request(StartActivity), "FMT_XML"))
        /\ consumed <= Allowance(PullsStarted)
        /\ \A k \in 1..scen.n :
               Len(results) >= 1 + k =>
                   /\ results[1 + k].kind = "value"
                   /\ marks[1 + k] = Allowance(k)
        /\ scen.bad # 0 =>
               /\ consumed <= Allowance(scen.n) + 1
               /\ Len(results) >= scen.n + 2 =>
                      /\ results[scen.n + 2] = Raise("AssertionError", <<>>)
                      /\ marks[scen.n + 2] = Allowance(scen.n) + 1
               /\ Len(results) >= scen.n + 3 =>
                      results[scen.n + 3] = Raise("StopIteration", <<>>)

C20_Witness ==
    /\ scen.kind = "syslog" /\ scen.n = 2 /\ scen.bad = 3
    /\ Len(results) = 4
    /\ results[1] = Value([t |-> "generator", b |-> <<>>])
    /\ results[3] = Value(Expected(Record(2)))
    /\ results[4] = Raise("AssertionError", <<>>)
    /\ marks = <<0, Allowance(1), Allowance(2), Allowance(2) + 1>>
    /\ Len(sent) = 1
    /\ Len(inflight) = Len(scen.script[4]) - 1

\* the bytes the peer sent as the length of the response
LengthField == SubSeq(scen.script[1], 5, 4 + scen.ll)

\* the first pull is reading the response
ReadingResponse ==
    Len(stack) = 2 /\ stack[1].fn = "syslog" /\ stack[1].pc = "response"

\* the value of a byte string read least significant byte first
RECURSIVE LittleEndianValue(_)
LittleEndianValue(b) ==
    IF b = <<>> THEN 0 ELSE Head(b) + 256 * LittleEndianValue(Tail(b))

\* the bytes of the handshake: length of the length, the length, the response
HandshakeLen == 4 + scen.ll + Len(scen.resp)

----------------------------------------------------------------------------
(* Claims about syslog_t, the log-record decoder *)

Severities == {0, 1, 2, 16, 17}

\* the name the enumeration gives a severity byte
SeverityName(n) ==
    CASE n = 0 -> "Notice" [] n = 1 -> "Info" [] n = 2 -> "Debug"
      [] n = 16 -> "Error" [] n = 17 -> "Fault"

\* the buffer of a decode scenario has been decoded
Decoded == scen.kind = "decode" /\ Len(results) >= 1

\* C11: severity bytes 0, 1, 2, 0x10, 0x11 decode to Notice, Info, Debug,
\* Error, Fault, and with any other severity byte the decode of the record
\* fails with UnmappedEnumValue: no level and no raw number comes back.
C11_SeverityDecoding ==
    Decoded =>
        IF scen.f.level \in Severities
        THEN /\ results[1].kind = "value"
             /\ results[1].v.level = [name |-> SeverityName(scen.f.level),
                                      value |-> scen.f.level]
        ELSE results[1] = Raise("UnmappedEnumValue", <<>>)

\* x without its last byte, empty for an empty x
Chop(x) == [i \in 1..(Len(x) - 1) |-> x[i]]

\* C12: from a buffer laid out as the declaration says, the decoder returns
\* the pid, seconds and microseconds, level, filename, image_name, message,
\* subsystem and category that were written, every sized field being its
\* declared bytes without the last one, for field sizes 0, 1 and more (pids
\* below 2^31 and the five severities of the enumeration).
C12_SyntheticDecode ==
    (Decoded /\ scen.f.pid >= 0 /\ scen.f.level \in Severities) =>
        results[1] =
            Value([ t |-> "LogRecord",
                    pid |-> Int32(scen.f.pid),
                    timestamp |-> scen.f.seconds * 1000000 + scen.f.microseconds,
                    level |-> [name |-> SeverityName(scen.f.level), value |-> scen.f.level],
                    filename |-> scen.f.filename,
                    image_name |-> Chop(scen.f.image),
                    message |-> Chop(scen.f.message),
                    label |-> [present |-> TRUE,
                               subsystem |-> Chop(scen.f.subsystem),
                               category |-> Chop(scen.f.category)] ])

C12_Witness ==
    /\ Decoded
    /\ scen.f.image = <<>> /\ scen.f.message = <<120>> /\ scen.f.subsystem = <<0>>
    /\ scen.f.category = <<99, 0>> /\ scen.f.filename = <<102, 47>>
    /\ scen.f.microseconds = 999999
    /\ results[1].kind = "value"
    /\ results[1].v.image_name = <<>> /\ results[1].v.message = <<>>
    /\ results[1].v.label.category = <<99>>
    /\ results[1].v.filename = <<102, 47>>
    /\ results[1].v.timestamp = 1001999999

\* C16: the pid of a decoded record is a signed 32-bit value: four bytes with
\* the top bit set decode to a negative number, FF FF FF FF to -1.
C16_PidSigned ==
    (Decoded /\ results[1].kind = "value") => results[1].v.pid = Int32(scen.f.pid)

====
